---- MODULE Spec2Model ----
(***************************************************************************)
(* Voting, reputation and answer acceptance of the StackIt Q&A server      *)
(* (server/models/Question.js, server/models/Answer.js,                    *)
(* server/models/Notification.js, server/routes/questions.js,              *)
(* server/routes/answers.js).                                              *)
(*                                                                         *)
(* Two specifications:                                                     *)
(*   SpecVote  the model methods (addUpvote, addDownvote, accept, ...)     *)
(*             called one after the other on one content item;            *)
(*   Spec      the HTTP request handlers (vote, accept, delete answer)     *)
(*             run one request at a time, one awaited call per step.       *)
(***************************************************************************)
EXTENDS Integers, Sequences, FiniteSets, TLC

\* ------------------------------------------------------------------------
\* Bounds of the model
\* ------------------------------------------------------------------------
MaxEntries == 1
MaxRequests == 2
MaxFaults == 1
MaxViews == 2
MaxLiveRequests == 1
MaxNotifications == 2

\* ------------------------------------------------------------------------
\* Fixed population
\* ------------------------------------------------------------------------
Users == {"u1", "u2", "u3"}
Answers == {"a1", "a2"}
NoAnswer == "none"
NoDate == 0

\* an id that names no stored document, and what findById returns for it
Gone == "gone"
Absent == [absent |-> TRUE]

\* ------------------------------------------------------------------------
\* Sequence helpers (Array.prototype.filter / find / some)
\* ------------------------------------------------------------------------
Range(s) == {s[i] : i \in 1..Len(s)}

filterOut(s, x) == SelectSeq(s, LAMBDA v : v # x)

\* ------------------------------------------------------------------------
\* Mongoose documents: the field values of the loaded document and the set
\* of paths marked modified.  Assigning a value equal to the current one
\* does not mark the path; save() writes the modified paths only.
\* ------------------------------------------------------------------------
ArrayPaths == {"upvotes", "downvotes", "viewedBy", "answers", "comments", "editHistory"}

load(stored) == [f |-> stored, mod |-> {}, atomics |-> <<>>]

\* this.path = val: the path is sent whole ($set) by the next save
set(doc, path, val) ==
    IF doc.f[path] = val
    THEN doc
    ELSE [doc EXCEPT !.f[path] = val, !.mod = @ \cup {path}]

\* this.path.push(val): the next save sends the new element only ($push)
push(doc, path, val) ==
    [doc EXCEPT !.f[path] = Append(@, val),
                !.atomics = Append(@, [path |-> path, val |-> val])]

\* the elements pushed to one array path since the document was loaded
pushedTo(doc, path) ==
    LET ops == SelectSeq(doc.atomics, LAMBDA a : a.path = path)
    IN  [i \in 1..Len(ops) |-> ops[i].val]

\* schema.pre('save'): recompute the cached tally from the two ledgers
preSave_UpvotesOnly(doc) == set(doc, "votes", Len(doc.f.upvotes))

preSave(doc) == set(doc, "votes", Len(doc.f.upvotes) - Len(doc.f.downvotes))

\* the document as stored after doc.save()
save(stored, doc) ==
    LET d == preSave(doc)
    IN  [p \in DOMAIN stored |->
            IF p \in d.mod THEN d.f[p]
            ELSE IF pushedTo(d, p) # <<>> THEN stored[p] \o pushedTo(d, p)
            ELSE stored[p]]

\* the in-memory document after doc.save() resolved
saved(doc) == [f |-> preSave(doc).f, mod |-> {}, atomics |-> <<>>]

\* the version key __v: a save that sets a whole array carries the loaded
\* __v in its filter and fails with VersionError when the stored one
\* differs; a save that only pushes or sets scalars has no such filter
versionWhere(doc) == preSave(doc).mod \cap ArrayPaths # {}

versionInc(doc) == versionWhere(doc) \/ doc.atomics # <<>>

VersionError(doc, loadedVersion, storedVersion) ==
    versionWhere(doc) /\ loadedVersion # storedVersion

\* Model.findByIdAndUpdate(id, update): $set of the given fields
findByIdAndUpdate(stored, update) ==
    [p \in DOMAIN stored |-> IF p \in DOMAIN update THEN update[p] ELSE stored[p]]

\* ------------------------------------------------------------------------
\* Schema methods, up to (not including) the final this.save()
\* ------------------------------------------------------------------------
addUpvote_KeepDownvote(doc, userId) ==
    LET d2 == IF userId \in Range(doc.f.upvotes)
              THEN set(doc, "upvotes", filterOut(doc.f.upvotes, userId))
              ELSE push(doc, "upvotes", userId)
    IN  set(d2, "votes", Len(d2.f.upvotes) - Len(d2.f.downvotes))

addUpvote_NoToggle(doc, userId) ==
    LET d1 == set(doc, "downvotes", filterOut(doc.f.downvotes, userId))
        d2 == IF userId \in Range(d1.f.upvotes) THEN d1 ELSE push(d1, "upvotes", userId)
    IN  set(d2, "votes", Len(d2.f.upvotes) - Len(d2.f.downvotes))

addUpvote_SwitchOnlyRemoves(doc, userId) ==
    LET d1 == set(doc, "downvotes", filterOut(doc.f.downvotes, userId))
        d2 == IF userId \in Range(d1.f.upvotes)
              THEN set(d1, "upvotes", filterOut(d1.f.upvotes, userId))
              ELSE IF userId \in Range(doc.f.downvotes) THEN d1
              ELSE push(d1, "upvotes", userId)
    IN  set(d2, "votes", Len(d2.f.upvotes) - Len(d2.f.downvotes))

addUpvote(doc, userId) ==
    LET d1 == set(doc, "downvotes", filterOut(doc.f.downvotes, userId))
        d2 == IF userId \in Range(d1.f.upvotes)
              THEN set(d1, "upvotes", filterOut(d1.f.upvotes, userId))
              ELSE push(d1, "upvotes", userId)
    IN  set(d2, "votes", Len(d2.f.upvotes) - Len(d2.f.downvotes))

addDownvote_UpvoteIsToggle(doc, userId) ==
    LET d1 == set(doc, "upvotes", filterOut(doc.f.upvotes, userId))
        d2 == IF userId \in Range(d1.f.downvotes) \/ userId \in Range(doc.f.upvotes)
              THEN set(d1, "downvotes", filterOut(d1.f.downvotes, userId))
              ELSE push(d1, "downvotes", userId)
    IN  set(d2, "votes", Len(d2.f.upvotes) - Len(d2.f.downvotes))

addDownvote_ClearsUpvotes(doc, userId) ==
    LET d1 == set(doc, "upvotes", <<>>)
        d2 == IF userId \in Range(d1.f.downvotes)
              THEN set(d1, "downvotes", filterOut(d1.f.downvotes, userId))
              ELSE push(d1, "downvotes", userId)
    IN  set(d2, "votes", Len(d2.f.upvotes) - Len(d2.f.downvotes))

addDownvote(doc, userId) ==
    LET d1 == set(doc, "upvotes", filterOut(doc.f.upvotes, userId))
        d2 == IF userId \in Range(d1.f.downvotes)
              THEN set(d1, "downvotes", filterOut(d1.f.downvotes, userId))
              ELSE push(d1, "downvotes", userId)
    IN  set(d2, "votes", Len(d2.f.upvotes) - Len(d2.f.downvotes))

accept(doc, now) == set(set(doc, "isAccepted", TRUE), "acceptedAt", now)

addComment_IntoUpvotes(doc, authorId) == push(doc, "upvotes", authorId)

addComment(doc, authorId) == push(doc, "comments", authorId)

addToEditHistory(doc, editorId) == push(doc, "editHistory", editorId)

addView(doc, userId) ==
    LET d1 == IF userId \notin Range(doc.f.viewedBy)
              THEN push(doc, "viewedBy", userId)
              ELSE doc
    IN  set(d1, "views", Len(d1.f.viewedBy))

\* ------------------------------------------------------------------------
\* Stored documents as created (schema defaults)
\* ------------------------------------------------------------------------
NewQuestion(author, answerIds) ==
    [author |-> author, upvotes |-> <<>>, downvotes |-> <<>>, votes |-> 0,
     views |-> 0, viewedBy |-> <<>>, answers |-> answerIds,
     acceptedAnswer |-> NoAnswer, isAnswered |-> Len(answerIds) > 0,
     isClosed |-> FALSE]

NewAnswer(author) ==
    [author |-> author, upvotes |-> <<>>, downvotes |-> <<>>, votes |-> 0,
     isAccepted |-> FALSE, acceptedAt |-> NoDate,
     comments |-> <<>>, editHistory |-> <<>>,
     isDeleted |-> FALSE, deletedAt |-> NoDate, deletedBy |-> "none"]

\* ------------------------------------------------------------------------
\* Route constants
\* ------------------------------------------------------------------------
QuestionAuthor == "u1"
AnswerAuthor == [a \in Answers |-> IF a = "a1" THEN "u2" ELSE "u1"]
Role == [u \in Users |-> IF u = "u3" THEN "moderator" ELSE "user"]

\* reputation delta of a vote, by content type and direction
VoteDelta_FlatFive(target, type) == IF type = "upvote" THEN 5 ELSE 0 - 2

VoteDelta(target, type) ==
    IF type = "upvote"
    THEN (IF target = "q" THEN 5 ELSE 10)
    ELSE 0 - 2

AcceptDelta_AsAnswerUpvote == VoteDelta("a1", "upvote")

AcceptDelta == 15

\* User.updateReputation(points): add a signed delta to the running score
updateReputation(rep, userId, points) == [rep EXCEPT ![userId] = @ + points]

\* Notification.createNotification: nothing is created when the sender is
\* the recipient
createNotification_Always(list, data) == Append(list, data)

createNotification(list, data) ==
    IF data.sender = data.recipient THEN list ELSE Append(list, data)

notifyUpvote(list, contentAuthor, voter) ==
    createNotification(list, [recipient |-> contentAuthor, sender |-> voter, type |-> "upvote"])

notifyAnswer(list, questionAuthor, answerAuthor) ==
    createNotification(list, [recipient |-> questionAuthor, sender |-> answerAuthor,
                              type |-> "answer"])

notifyAcceptedAnswer(list, answerAuthor, questionAuthor) ==
    createNotification(list, [recipient |-> answerAuthor, sender |-> questionAuthor, type |-> "accept"])

\* requireOwnershipOrModerator('author'): 0 when next() is called, else the
\* status it responds with
requireOwnershipOrModerator(userId, resourceAuthor) ==
    IF Role[userId] \in {"admin", "moderator"} THEN 0
    ELSE IF resourceAuthor # userId THEN 403
    ELSE 0

\* the checks of the vote handlers on the loaded content: 0 when the vote
\* goes ahead, else the status of the response (answers only have isDeleted)
VoteCheck_NoSelfCheck(target, c, userId) ==
    IF c = Absent \/ (target # "q" /\ c.isDeleted) THEN 404 ELSE 0

VoteCheck_NoDeletedCheck(target, c, userId) ==
    IF c = Absent THEN 404
    ELSE IF c.author = userId THEN 400
    ELSE 0

VoteCheck(target, c, userId) ==
    IF c = Absent \/ (target # "q" /\ c.isDeleted) THEN 404
    ELSE IF c.author = userId THEN 400
    ELSE 0

\* the awaited calls of each handler after its first load, in program order
VotePlan_ReputationFirst(type) ==
    IF type = "upvote" THEN <<"reputation", "notify", "vote">> ELSE <<"reputation", "vote">>

VotePlan_NotifyFirst(type) ==
    IF type = "upvote" THEN <<"notify", "vote", "reputation">> ELSE <<"vote", "reputation">>

VotePlan(type) ==
    IF type = "upvote" THEN <<"vote", "notify", "reputation">> ELSE <<"vote", "reputation">>

\* the authorization check of the accept handler: only the question's author
AcceptCheck_Anyone(questionAuthor, userId) == 0

AcceptCheck(questionAuthor, userId) ==
    IF questionAuthor # userId THEN 403 ELSE 0

AcceptPlan_NoUnaccept(hasAccepted, notifyNeeded) ==
    <<"accept", "saveQuestion">>
    \o (IF notifyNeeded THEN <<"notify">> ELSE <<>>)
    \o <<"reputation">>

AcceptPlan(hasAccepted, notifyNeeded) ==
    (IF hasAccepted THEN <<"unaccept">> ELSE <<>>)
    \o <<"accept", "saveQuestion">>
    \o (IF notifyNeeded THEN <<"notify">> ELSE <<>>)
    \o <<"reputation">>

\* POST / (create answer): the awaited calls after the question was loaded
CreatePlan(notifyNeeded) ==
    <<"saveAnswer", "pushQuestion", "stats">>
    \o (IF notifyNeeded THEN <<"notify">> ELSE <<>>)
    \o <<"populate">>

DeletePlan == <<"softDelete", "findQuestion", "count", "saveQuestion", "stats">>

\* the updates of the loaded question in the delete handler once the
\* remaining answers are counted: isAnswered and acceptedAnswer
deleteQuestionUpdate_KeepPointer(qdoc, remaining, answerId) ==
    IF remaining = 0 THEN set(qdoc, "isAnswered", FALSE) ELSE qdoc

deleteQuestionUpdate_StaysAnswered(qdoc, remaining, answerId) ==
    IF qdoc.f.acceptedAnswer # NoAnswer /\ qdoc.f.acceptedAnswer = answerId
    THEN set(qdoc, "acceptedAnswer", NoAnswer)
    ELSE qdoc

deleteQuestionUpdate(qdoc, remaining, answerId) ==
    LET d1 == IF remaining = 0 THEN set(qdoc, "isAnswered", FALSE) ELSE qdoc
    IN  IF d1.f.acceptedAnswer # NoAnswer /\ d1.f.acceptedAnswer = answerId
        THEN set(d1, "acceptedAnswer", NoAnswer)
        ELSE d1

VARIABLES
    item,           \* SpecVote: the stored content item (a question or an answer)
    itemKind,       \* SpecVote: "question" or "answer"
    calls,          \* SpecVote: the last two completed method calls, oldest first
    question,       \* Spec: the stored question document
    answer,         \* Spec: the stored answer documents, by id
    reputation,     \* Spec: the stored reputation of each user
    answersGiven,   \* Spec: the stored stats.answersGiven of each user
    notifications,  \* Spec: the stored notifications, in creation order
    req,            \* Spec: the request being handled (or the last one handled)
    nreq,           \* Spec: number of requests received
    faults,         \* Spec: number of awaited calls that threw and server stops so far
    race,           \* SpecRace: the two requests in flight at the same time, by slot
    version         \* SpecRace: the stored __v of each content document

voteVars == <<item, itemKind, calls>>
storeVars == <<question, answer, reputation, answersGiven, notifications>>
reqVars == <<question, answer, reputation, answersGiven, notifications, req, nreq, faults>>
raceVars == <<race, version>>
vars == <<item, itemKind, calls, question, answer, reputation, answersGiven,
          notifications, req, nreq, faults, race, version>>

NoDoc == [f |-> <<>>, mod |-> {}, atomics |-> <<>>]

Store == [question |-> question, answer |-> answer, reputation |-> reputation,
          answersGiven |-> answersGiven, notifications |-> notifications]

NoRequest ==
    [kind |-> "none", user |-> "u1", target |-> "q", type |-> "-",
     plan |-> <<>>, status |-> 0, running |-> FALSE,
     doc |-> NoDoc, qdoc |-> NoDoc, remaining |-> 0,
     saved |-> FALSE, repDone |-> FALSE, failed |-> "", pre |-> <<>>,
     responses |-> 0, v |-> 0]

\* the question and its two answers as created, nothing voted or accepted
InitStore ==
    /\ question = NewQuestion(QuestionAuthor, <<"a1", "a2">>)
    /\ answer = [a \in Answers |-> NewAnswer(AnswerAuthor[a])]
    /\ reputation = [u \in Users |-> 0]
    /\ answersGiven = [u \in Users |-> Cardinality({a \in Answers : AnswerAuthor[a] = u})]
    /\ notifications = <<>>
    /\ req = NoRequest
    /\ nreq = 0
    /\ faults = 0

\* the same after the question's author accepted a1 (POST /a1/accept ran to
\* completion at date 1): a1 flagged, the question points at it, a1's author
\* has the +15 and the 'accept' notification
InitStoreAccepted ==
    /\ question = [NewQuestion(QuestionAuthor, <<"a1", "a2">>) EXCEPT !.acceptedAnswer = "a1"]
    /\ answer = [a \in Answers |->
                    IF a = "a1"
                    THEN [NewAnswer(AnswerAuthor[a]) EXCEPT !.isAccepted = TRUE, !.acceptedAt = 1]
                    ELSE NewAnswer(AnswerAuthor[a])]
    /\ reputation = [u \in Users |-> IF u = AnswerAuthor["a1"] THEN AcceptDelta ELSE 0]
    /\ answersGiven = [u \in Users |-> Cardinality({a \in Answers : AnswerAuthor[a] = u})]
    /\ notifications = <<[recipient |-> AnswerAuthor["a1"], sender |-> QuestionAuthor,
                          type |-> "accept"]>>
    /\ req = NoRequest
    /\ nreq = 0
    /\ faults = 0

\* the question as created, then closed: isClosed is a field of the schema
\* that the handlers read and none of them writes
InitStoreClosed ==
    /\ question = [NewQuestion(QuestionAuthor, <<"a1", "a2">>) EXCEPT !.isClosed = TRUE]
    /\ answer = [a \in Answers |-> NewAnswer(AnswerAuthor[a])]
    /\ reputation = [u \in Users |-> 0]
    /\ answersGiven = [u \in Users |-> Cardinality({a \in Answers : AnswerAuthor[a] = u})]
    /\ notifications = <<>>
    /\ req = NoRequest
    /\ nreq = 0
    /\ faults = 0

\* the fresh store after u2's upvote and u3's downvote of the question both
\* ran to completion: two pushes, the author has +5 - 2, one 'upvote'
\* notification
InitStoreVoted ==
    /\ question = [NewQuestion(QuestionAuthor, <<"a1", "a2">>) EXCEPT
                       !.upvotes = <<"u2">>, !.downvotes = <<"u3">>]
    /\ answer = [a \in Answers |-> NewAnswer(AnswerAuthor[a])]
    /\ reputation = [u \in Users |->
                        IF u = QuestionAuthor
                        THEN VoteDelta("q", "upvote") + VoteDelta("q", "downvote")
                        ELSE 0]
    /\ answersGiven = [u \in Users |-> Cardinality({a \in Answers : AnswerAuthor[a] = u})]
    /\ notifications = <<[recipient |-> QuestionAuthor, sender |-> "u2", type |-> "upvote"]>>
    /\ req = NoRequest
    /\ nreq = 0
    /\ faults = 0

InitItem ==
    /\ itemKind = "question"
    /\ item = NewQuestion("u1", <<>>)
    /\ calls = <<>>

Slots == {1, 2}

InitRaceIdle ==
    /\ race = [i \in Slots |-> NoRequest]
    /\ version = [t \in {"q"} \cup Answers |-> 0]

Ledger(d) == [up |-> Range(d.upvotes), down |-> Range(d.downvotes), votes |-> d.votes]

Remember(op, userId) ==
    LET c == [op |-> op, user |-> userId, before |-> Ledger(item),
              views |-> IF itemKind = "question" THEN item.views ELSE 0]
    IN  calls' = IF Len(calls) < 2 THEN Append(calls, c) ELSE <<calls[2], c>>

\* ------------------------------------------------------------------------
\* SpecVote: each action is one completed method call (load, method, save)
\* ------------------------------------------------------------------------
InitVote ==
    /\ itemKind \in {"question", "answer"}
    /\ item = IF itemKind = "question"
              THEN NewQuestion("u1", <<>>)
              ELSE NewAnswer("u1")
    /\ calls = <<>>
    /\ InitStore
    /\ InitRaceIdle

AddUpvote(u) ==
    /\ item' = save(item, addUpvote(load(item), u))
    /\ Remember("addUpvote", u)
    /\ UNCHANGED <<itemKind, reqVars, raceVars>>

AddDownvote(u) ==
    /\ item' = save(item, addDownvote(load(item), u))
    /\ Remember("addDownvote", u)
    /\ UNCHANGED <<itemKind, reqVars, raceVars>>

Accept ==
    /\ itemKind = "answer"
    /\ item' = save(item, accept(load(item), 1))
    /\ Remember("accept", "u1")
    /\ UNCHANGED <<itemKind, reqVars, raceVars>>

AddComment(u) ==
    /\ itemKind = "answer"
    /\ Len(item.comments) + Len(item.editHistory) < MaxEntries
    /\ item' = save(item, addComment(load(item), u))
    /\ Remember("addComment", u)
    /\ UNCHANGED <<itemKind, reqVars, raceVars>>

AddToEditHistory(u) ==
    /\ itemKind = "answer"
    /\ Len(item.comments) + Len(item.editHistory) < MaxEntries
    /\ item' = save(item, addToEditHistory(load(item), u))
    /\ Remember("addToEditHistory", u)
    /\ UNCHANGED <<itemKind, reqVars, raceVars>>

AddView(u) ==
    /\ itemKind = "question"
    /\ item' = save(item, addView(load(item), u))
    /\ Remember("addView", u)
    /\ UNCHANGED <<itemKind, reqVars, raceVars>>

\* GET /:id without a user: question.views += 1; await question.save()
AnonymousView ==
    /\ itemKind = "question"
    /\ item.views < MaxViews
    /\ item' = save(item, set(load(item), "views", item.views + 1))
    /\ Remember("anonymousView", "none")
    /\ UNCHANGED <<itemKind, reqVars, raceVars>>

\* DELETE /:id: Answer.findByIdAndUpdate(id, {isDeleted: true, deletedAt, deletedBy})
SoftDelete ==
    /\ itemKind = "answer"
    /\ ~item.isDeleted
    /\ item' = findByIdAndUpdate(item, [isDeleted |-> TRUE, deletedAt |-> 1,
                                        deletedBy |-> item.author])
    /\ Remember("softDelete", item.author)
    /\ UNCHANGED <<itemKind, reqVars, raceVars>>

NextVote ==
    \/ \E u \in Users : AddUpvote(u)
    \/ \E u \in Users : AddDownvote(u)
    \/ Accept
    \/ \E u \in Users : AddComment(u)
    \/ \E u \in Users : AddToEditHistory(u)
    \/ \E u \in Users : AddView(u)
    \/ AnonymousView
    \/ SoftDelete

SpecVote == InitVote /\ [][NextVote]_vars

\* ========================================================================
\* Properties of the model methods (checked under SpecVote)
\* ========================================================================

LastCall == calls[Len(calls)]

\* the last two completed calls were op1(u) then op2(u) for one user u
TwoCalls(op1, op2) ==
    /\ Len(calls) = 2
    /\ calls[1].op = op1
    /\ calls[2].op = op2
    /\ calls[1].user = calls[2].user

\* C1 (Invariant I1): after any sequence of completed addUpvote / addDownvote
\* calls, no user identifier is in both upvotes and downvotes of the item.
C1_MutualExclusion == Range(item.upvotes) \cap Range(item.downvotes) = {}

\* C1 witness: a user who upvoted and then downvoted, next to another
\* user's upvote
C1_Witness ==
    /\ TwoCalls("addUpvote", "addDownvote")
    /\ LastCall.user \in Range(item.downvotes)
    /\ Range(item.upvotes) # {}

\* C2 (Invariant I2): in every persisted state reached by completed
\* save-based mutations, votes = |upvotes| - |downvotes|.
C2_TallyMatchesLedger == item.votes = Len(item.upvotes) - Len(item.downvotes)

\* C2 witness: a non-vote save (accept, addComment, addToEditHistory,
\* addView) of an item that carries both upvotes and downvotes
C2_Witness ==
    /\ calls # <<>>
    /\ LastCall.op \in {"accept", "addComment", "addToEditHistory", "addView"}
    /\ item.downvotes # <<>>
    /\ Len(item.upvotes) = 2

\* C3 as stated: two successive addUpvote(u) by a non-author u return
\* upvotes, downvotes and votes to their values before the first call, also
\* when u held a downvote.
C3_Original ==
    (TwoCalls("addUpvote", "addUpvote") /\ LastCall.user # item.author)
        => Ledger(item) = calls[1].before

\* C3 as amended: two successive addUpvote(u) by a non-author u who holds no
\* downvote return the users in upvotes and in downvotes and the value of
\* votes to what they were; when u held a downvote, the two calls remove it,
\* u ends with no vote and votes is one higher than before.
C3_DoubleUpvote ==
    (TwoCalls("addUpvote", "addUpvote") /\ LastCall.user # item.author)
        => LET u == LastCall.user
               b == calls[1].before
           IN  IF u \in b.down
               THEN Ledger(item) = [up |-> b.up, down |-> b.down \ {u},
                                    votes |-> b.votes + 1]
               ELSE Ledger(item) = b

\* C3 witness: a double upvote by a non-author without a downvote, on an
\* item other users have voted on
C3_Witness ==
    /\ TwoCalls("addUpvote", "addUpvote")
    /\ LastCall.user # item.author
    /\ LastCall.user \notin calls[1].before.down
    /\ calls[1].before.up # {}
    /\ calls[1].before.down # {}

\* C4: for a user u without a vote, addUpvote(u) then addDownvote(u) leaves
\* u in downvotes and not in upvotes, votes one below its value before the
\* two calls and two below its value right after the upvote.
C4_UpThenDown ==
    (/\ TwoCalls("addUpvote", "addDownvote")
     /\ LastCall.user \notin calls[1].before.up \cup calls[1].before.down)
        => /\ LastCall.user \in Range(item.downvotes)
           /\ LastCall.user \notin Range(item.upvotes)
           /\ item.votes = calls[1].before.votes - 1
           /\ item.votes = calls[2].before.votes - 2

\* C4 witness: an upvote then a downvote by a user who had no vote
C4_Witness ==
    /\ TwoCalls("addUpvote", "addDownvote")
    /\ LastCall.user \notin calls[1].before.up \cup calls[1].before.down
    /\ calls[1].before.up # {}

\* ------------------------------------------------------------------------
\* Spec: the request handlers.  A request is received (Receive*), then each
\* action runs the handler up to and including its next awaited call.
\* ------------------------------------------------------------------------
Init == InitItem /\ InitRaceIdle /\ (InitStore \/ InitStoreAccepted \/ InitStoreClosed)

\* new Date(): later than every date stored so far
Now == nreq + 1

Content(t) == IF t = "q" THEN question ELSE IF t \in Answers THEN answer[t] ELSE Absent

ContentAuthor(t) ==
    IF t = "q" THEN QuestionAuthor ELSE IF t \in Answers THEN AnswerAuthor[t] ELSE "none"

Idle == ~req.running

At(kind, step) ==
    /\ req.running
    /\ req.kind = kind
    /\ req.plan # <<>>
    /\ Head(req.plan) = step

\* the handler moves past the awaited call; after the last one it responds
\* with success
Advance_NoFinalResponse(r) == [r EXCEPT !.plan = Tail(r.plan)]

Advance(r) ==
    LET rest == Tail(r.plan)
    IN  [r EXCEPT !.plan = rest,
                  !.running = rest # <<>>,
                  !.status = IF rest = <<>> THEN 200 ELSE 0,
                  !.responses = IF rest = <<>> THEN @ + 1 ELSE @]

\* return res.status(status).json(...): the handler is left
Respond(r, status) ==
    [r EXCEPT !.plan = <<>>, !.running = FALSE, !.status = status,
              !.responses = @ + 1]

Receive(kind, u, t, type) ==
    /\ Idle
    /\ nreq < MaxRequests
    /\ nreq' = nreq + 1
    /\ req' = [NoRequest EXCEPT !.kind = kind, !.user = u, !.target = t,
                                !.type = type, !.running = TRUE,
                                !.plan = <<"find">>, !.pre = Store]
    /\ UNCHANGED <<storeVars, faults, voteVars, raceVars>>

ReceiveVote(u, t, type) == Receive("vote", u, t, type)

ReceiveAccept(u, a) == Receive("accept", u, a, "-")

ReceiveDelete(u, a) == Receive("delete", u, a, "-")

\* POST /:id/vote: findById().populate('author'), the 404 and the 400 checks
VoteFind ==
    /\ At("vote", "find")
    /\ LET c == Content(req.target)
           rejected == VoteCheck(req.target, c, req.user)
       IN  req' = IF rejected # 0
                  THEN Respond(req, rejected)
                  ELSE [req EXCEPT !.doc = load(c), !.plan = VotePlan(req.type)]
    /\ UNCHANGED <<storeVars, nreq, faults, voteVars, raceVars>>

\* await content.addUpvote(userId) / addDownvote(userId)
VoteApply ==
    /\ At("vote", "vote")
    /\ LET d == IF req.type = "upvote"
                THEN addUpvote(req.doc, req.user)
                ELSE addDownvote(req.doc, req.user)
           w == save(Content(req.target), d)
       IN  /\ IF req.target = "q"
              THEN question' = w /\ UNCHANGED answer
              ELSE answer' = [answer EXCEPT ![req.target] = w] /\ UNCHANGED question
           /\ req' = [Advance(req) EXCEPT !.doc = saved(d), !.saved = TRUE]
    /\ UNCHANGED <<reputation, answersGiven, notifications, nreq, faults, voteVars, raceVars>>

\* await Notification.notifyUpvote(author._id, req.user._id, content, type)
VoteNotify ==
    /\ At("vote", "notify")
    /\ notifications' = notifyUpvote(notifications, req.doc.f.author, req.user)
    /\ req' = Advance(req)
    /\ UNCHANGED <<question, answer, reputation, answersGiven, nreq, faults, voteVars, raceVars>>

\* await content.author.updateReputation(delta); res.json(...)
VoteReputation ==
    /\ At("vote", "reputation")
    /\ reputation' = updateReputation(reputation, req.doc.f.author,
                                      VoteDelta(req.target, req.type))
    /\ req' = [Advance(req) EXCEPT !.repDone = TRUE]
    /\ UNCHANGED <<question, answer, answersGiven, notifications, nreq, faults, voteVars, raceVars>>

\* POST /:id/accept: Answer.findById().populate('author') and the 404 check
AcceptFindAnswer ==
    /\ At("accept", "find")
    /\ req' = IF answer[req.target].isDeleted
              THEN Respond(req, 404)
              ELSE [req EXCEPT !.doc = load(answer[req.target]),
                               !.plan = <<"findQuestion">>]
    /\ UNCHANGED <<storeVars, nreq, faults, voteVars, raceVars>>

\* Question.findById(answer.question) and the 403 check
AcceptFindQuestion ==
    /\ At("accept", "findQuestion")
    /\ req' = IF AcceptCheck(question.author, req.user) # 0
              THEN Respond(req, AcceptCheck(question.author, req.user))
              ELSE [req EXCEPT !.qdoc = load(question),
                               !.plan = AcceptPlan(question.acceptedAnswer # NoAnswer,
                                                   req.doc.f.author # req.user)]
    /\ UNCHANGED <<storeVars, nreq, faults, voteVars, raceVars>>

\* await Answer.findByIdAndUpdate(question.acceptedAnswer, {isAccepted: false, acceptedAt: null})
AcceptUnaccept ==
    /\ At("accept", "unaccept")
    /\ answer' = [answer EXCEPT ![req.qdoc.f.acceptedAnswer] =
                     findByIdAndUpdate(@, [isAccepted |-> FALSE, acceptedAt |-> NoDate])]
    /\ req' = Advance(req)
    /\ UNCHANGED <<question, reputation, answersGiven, notifications, nreq, faults, voteVars, raceVars>>

\* await answer.accept()
AcceptAnswer ==
    /\ At("accept", "accept")
    /\ LET d == accept(req.doc, Now)
       IN  /\ answer' = [answer EXCEPT ![req.target] = save(@, d)]
           /\ req' = [Advance(req) EXCEPT !.doc = saved(d), !.saved = TRUE]
    /\ UNCHANGED <<question, reputation, answersGiven, notifications, nreq, faults, voteVars, raceVars>>

\* question.acceptedAnswer = answer._id; await question.save()
AcceptSaveQuestion ==
    /\ At("accept", "saveQuestion")
    /\ LET d == set(req.qdoc, "acceptedAnswer", req.target)
       IN  /\ question' = save(question, d)
           /\ req' = [Advance(req) EXCEPT !.qdoc = saved(d)]
    /\ UNCHANGED <<answer, reputation, answersGiven, notifications, nreq, faults, voteVars, raceVars>>

\* await Notification.notifyAcceptedAnswer(answer.author._id, req.user._id, answer)
AcceptNotify ==
    /\ At("accept", "notify")
    /\ notifications' = notifyAcceptedAnswer(notifications, req.doc.f.author, req.user)
    /\ req' = Advance(req)
    /\ UNCHANGED <<question, answer, reputation, answersGiven, nreq, faults, voteVars, raceVars>>

\* await answer.author.updateReputation(15); res.json(...)
AcceptReputation ==
    /\ At("accept", "reputation")
    /\ reputation' = updateReputation(reputation, req.doc.f.author, AcceptDelta)
    /\ req' = [Advance(req) EXCEPT !.repDone = TRUE]
    /\ UNCHANGED <<question, answer, answersGiven, notifications, nreq, faults, voteVars, raceVars>>

\* DELETE /:id: Answer.findById, the 404 check and the ownership check
DeleteFind ==
    /\ At("delete", "find")
    /\ LET a == answer[req.target]
           denied == requireOwnershipOrModerator(req.user, a.author)
       IN  req' = IF a = Absent \/ a.isDeleted THEN Respond(req, 404)
                  ELSE IF denied # 0 THEN Respond(req, denied)
                  ELSE [req EXCEPT !.doc = load(a), !.plan = DeletePlan]
    /\ UNCHANGED <<storeVars, nreq, faults, voteVars, raceVars>>

\* await Answer.findByIdAndUpdate(id, {isDeleted: true, deletedAt, deletedBy})
DeleteSoft ==
    /\ At("delete", "softDelete")
    /\ answer' = [answer EXCEPT ![req.target] =
                     findByIdAndUpdate(@, [isDeleted |-> TRUE, deletedAt |-> Now,
                                           deletedBy |-> req.user])]
    /\ req' = [Advance(req) EXCEPT !.saved = TRUE]
    /\ UNCHANGED <<question, reputation, answersGiven, notifications, nreq, faults, voteVars, raceVars>>

\* question = await Question.findById(answer.question); question.answers = filter(...)
DeleteFindQuestion ==
    /\ At("delete", "findQuestion")
    /\ req' = [Advance(req) EXCEPT
                  !.qdoc = set(load(question), "answers",
                               filterOut(question.answers, req.target))]
    /\ UNCHANGED <<storeVars, nreq, faults, voteVars, raceVars>>

\* remainingAnswers = await Answer.countDocuments({question, isDeleted: false}),
\* then the isAnswered and acceptedAnswer updates of the loaded question
DeleteCount ==
    /\ At("delete", "count")
    /\ LET remaining == Cardinality({a \in Answers :
                                         answer[a] # Absent /\ ~answer[a].isDeleted})
       IN  req' = [Advance(req) EXCEPT
                      !.remaining = remaining,
                      !.qdoc = deleteQuestionUpdate(req.qdoc, remaining, req.target)]
    /\ UNCHANGED <<storeVars, nreq, faults, voteVars, raceVars>>

\* await question.save()
DeleteSaveQuestion ==
    /\ At("delete", "saveQuestion")
    /\ question' = save(question, req.qdoc)
    /\ req' = [Advance(req) EXCEPT !.qdoc = saved(req.qdoc)]
    /\ UNCHANGED <<answer, reputation, answersGiven, notifications, nreq, faults, voteVars, raceVars>>

\* await User.findByIdAndUpdate(answer.author, {$inc: {'stats.answersGiven': -1}}); res.json(...)
DeleteStats ==
    /\ At("delete", "stats")
    /\ answersGiven' = [answersGiven EXCEPT ![req.doc.f.author] = @ - 1]
    /\ req' = Advance(req)
    /\ UNCHANGED <<question, answer, reputation, notifications, nreq, faults, voteVars, raceVars>>

\* the awaited call rejects: the catch block responds 500
Fail ==
    /\ req.running
    /\ req.plan # <<>>
    /\ faults < MaxFaults
    /\ req' = [Respond(req, 500) EXCEPT !.failed = Head(req.plan)]
    /\ faults' = faults + 1
    /\ UNCHANGED <<storeVars, nreq, voteVars, raceVars>>

\* the server process stops while the request is in flight: no response
Crash ==
    /\ req.running
    /\ faults < MaxFaults
    /\ req' = [req EXCEPT !.plan = <<>>, !.running = FALSE, !.failed = "crash"]
    /\ faults' = faults + 1
    /\ UNCHANGED <<storeVars, nreq, voteVars, raceVars>>

Next ==
    \/ \E u \in Users, t \in {"q", Gone} \cup Answers, type \in {"upvote", "downvote"} :
          ReceiveVote(u, t, type)
    \/ \E u \in Users, a \in Answers : ReceiveAccept(u, a)
    \/ \E u \in Users, a \in Answers : ReceiveDelete(u, a)
    \/ VoteFind
    \/ VoteApply
    \/ VoteNotify
    \/ VoteReputation
    \/ AcceptFindAnswer
    \/ AcceptFindQuestion
    \/ AcceptUnaccept
    \/ AcceptAnswer
    \/ AcceptSaveQuestion
    \/ AcceptNotify
    \/ AcceptReputation
    \/ DeleteFind
    \/ DeleteSoft
    \/ DeleteFindQuestion
    \/ DeleteCount
    \/ DeleteSaveQuestion
    \/ DeleteStats
    \/ Fail
    \/ Crash

Spec == Init /\ [][Next]_vars

\* ------------------------------------------------------------------------
\* SpecLive: the same handlers while the server keeps running, with every
\* awaited call eventually returning (Step) or throwing (Fail)
\* ------------------------------------------------------------------------
Arrive ==
    /\ nreq < MaxLiveRequests
    /\ \/ \E u \in Users, t \in {"q", Gone} \cup Answers, type \in {"upvote", "downvote"} :
             ReceiveVote(u, t, type)
       \/ \E u \in Users, a \in Answers : ReceiveAccept(u, a)
       \/ \E u \in Users, a \in Answers : ReceiveDelete(u, a)

Step ==
    \/ VoteFind
    \/ VoteApply
    \/ VoteNotify
    \/ VoteReputation
    \/ AcceptFindAnswer
    \/ AcceptFindQuestion
    \/ AcceptUnaccept
    \/ AcceptAnswer
    \/ AcceptSaveQuestion
    \/ AcceptNotify
    \/ AcceptReputation
    \/ DeleteFind
    \/ DeleteSoft
    \/ DeleteFindQuestion
    \/ DeleteCount
    \/ DeleteSaveQuestion
    \/ DeleteStats

NextLive == Arrive \/ Step \/ Fail

SpecLive == Init /\ [][NextLive]_vars /\ WF_vars(Step \/ Fail)

\* ------------------------------------------------------------------------
\* SpecThread: answers of the question are created and deleted, one request
\* at a time, every awaited call returning
\* ------------------------------------------------------------------------
\* the question with the first n of its answers created (by their authors)
ThreadStore(n) ==
    LET made == IF n = 0 THEN <<>> ELSE IF n = 1 THEN <<"a1">> ELSE <<"a1", "a2">>
    IN  /\ question = NewQuestion(QuestionAuthor, made)
        /\ answer = [a \in Answers |->
                        IF a \in Range(made) THEN NewAnswer(AnswerAuthor[a]) ELSE Absent]
        /\ reputation = [u \in Users |-> 0]
        /\ answersGiven = [u \in Users |->
                              Cardinality({a \in Range(made) : AnswerAuthor[a] = u})]
        /\ notifications = <<>>
        /\ req = NoRequest
        /\ nreq = 0
        /\ faults = 0

InitThread ==
    /\ InitItem
    /\ InitRaceIdle
    /\ \/ \E n \in 0..2 : ThreadStore(n)
       \/ InitStoreClosed

\* the id given to the new answer: one that names no answer yet
ReceiveCreate(u, a) ==
    /\ answer[a] = Absent
    /\ Receive("create", u, a, "-")

\* Question.findById(questionId).populate('author') and the isClosed check
CreateFind ==
    /\ At("create", "find")
    /\ req' = IF question.isClosed
              THEN Respond(req, 400)
              ELSE [req EXCEPT !.qdoc = load(question),
                               !.plan = CreatePlan(question.author # req.user)]
    /\ UNCHANGED <<storeVars, nreq, faults, voteVars, raceVars>>

\* const answer = new Answer({content, question, author}); await answer.save()
CreateSaveAnswer ==
    /\ At("create", "saveAnswer")
    /\ answer' = [answer EXCEPT ![req.target] = NewAnswer(req.user)]
    /\ req' = [Advance(req) EXCEPT !.doc = load(NewAnswer(req.user)), !.saved = TRUE]
    /\ UNCHANGED <<question, reputation, answersGiven, notifications, nreq, faults,
                   voteVars, raceVars>>

\* await Question.findByIdAndUpdate(questionId, {$push: {answers}, $set: {isAnswered: true, ...}})
CreatePushQuestion ==
    /\ At("create", "pushQuestion")
    /\ question' = findByIdAndUpdate(question,
                                     [answers |-> Append(question.answers, req.target),
                                      isAnswered |-> TRUE])
    /\ req' = Advance(req)
    /\ UNCHANGED <<answer, reputation, answersGiven, notifications, nreq, faults,
                   voteVars, raceVars>>

\* await User.findByIdAndUpdate(req.user._id, {$inc: {'stats.answersGiven': 1}})
CreateStats ==
    /\ At("create", "stats")
    /\ answersGiven' = [answersGiven EXCEPT ![req.user] = @ + 1]
    /\ req' = Advance(req)
    /\ UNCHANGED <<question, answer, reputation, notifications, nreq, faults,
                   voteVars, raceVars>>

\* await Notification.notifyAnswer(question.author._id, req.user._id, question)
CreateNotify ==
    /\ At("create", "notify")
    /\ notifications' = notifyAnswer(notifications, req.qdoc.f.author, req.user)
    /\ req' = Advance(req)
    /\ UNCHANGED <<question, answer, reputation, answersGiven, nreq, faults,
                   voteVars, raceVars>>

\* await answer.populate('author', ...); res.status(201).json(...)
CreatePopulate ==
    /\ At("create", "populate")
    /\ req' = [Advance(req) EXCEPT !.status = 201]
    /\ UNCHANGED <<storeVars, nreq, faults, voteVars, raceVars>>

NextThread ==
    \/ \E u \in Users, a \in Answers : ReceiveCreate(u, a)
    \/ \E u \in Users, a \in Answers : ReceiveDelete(u, a)
    \/ CreateFind
    \/ CreateSaveAnswer
    \/ CreatePushQuestion
    \/ CreateStats
    \/ CreateNotify
    \/ CreatePopulate
    \/ DeleteFind
    \/ DeleteSoft
    \/ DeleteFindQuestion
    \/ DeleteCount
    \/ DeleteSaveQuestion
    \/ DeleteStats

SpecThread == InitThread /\ [][NextThread]_vars

\* ------------------------------------------------------------------------
\* SpecNotify: the notification helpers called with any recipient and
\* sender; calls remembers the last call and the number of notifications
\* stored before it
\* ------------------------------------------------------------------------
InitNotify == InitItem /\ InitRaceIdle /\ InitStore

RememberNotify(op, recipient, sender) ==
    calls' = <<[op |-> op, user |-> sender, recipient |-> recipient,
                before |-> Len(notifications)]>>

NotifyUpvote(recipient, sender) ==
    /\ Len(notifications) < MaxNotifications
    /\ notifications' = notifyUpvote(notifications, recipient, sender)
    /\ RememberNotify("notifyUpvote", recipient, sender)
    /\ UNCHANGED <<item, itemKind, question, answer, reputation, answersGiven,
                   req, nreq, faults, raceVars>>

NotifyAnswer(recipient, sender) ==
    /\ Len(notifications) < MaxNotifications
    /\ notifications' = notifyAnswer(notifications, recipient, sender)
    /\ RememberNotify("notifyAnswer", recipient, sender)
    /\ UNCHANGED <<item, itemKind, question, answer, reputation, answersGiven,
                   req, nreq, faults, raceVars>>

NotifyAcceptedAnswer(recipient, sender) ==
    /\ Len(notifications) < MaxNotifications
    /\ notifications' = notifyAcceptedAnswer(notifications, recipient, sender)
    /\ RememberNotify("notifyAcceptedAnswer", recipient, sender)
    /\ UNCHANGED <<item, itemKind, question, answer, reputation, answersGiven,
                   req, nreq, faults, raceVars>>

NextNotify ==
    \/ \E r \in Users, s \in Users : NotifyUpvote(r, s)
    \/ \E r \in Users, s \in Users : NotifyAnswer(r, s)
    \/ \E r \in Users, s \in Users : NotifyAcceptedAnswer(r, s)

SpecNotify == InitNotify /\ [][NextNotify]_vars

\* ------------------------------------------------------------------------
\* SpecRace: two vote requests in flight at the same time, their awaited
\* calls interleaved in every order
\* ------------------------------------------------------------------------
InitRace ==
    /\ InitItem
    /\ race = [i \in Slots |-> NoRequest]
    /\ \/ InitStore /\ version = [t \in {"q"} \cup Answers |-> 0]
       \/ InitStoreAccepted /\ version = [t \in {"q"} \cup Answers |-> 0]
       \/ InitStoreVoted /\ version = [t \in {"q"} \cup Answers |-> IF t = "q" THEN 2 ELSE 0]

RaceAt(i, step) ==
    /\ race[i].running
    /\ race[i].plan # <<>>
    /\ Head(race[i].plan) = step

\* the second request arrives while or after the first one is handled
RaceReceive(i, u, t, type) ==
    /\ race[i].kind = "none"
    /\ i = 2 => race[1].kind # "none"
    /\ race' = [race EXCEPT ![i] =
                   [NoRequest EXCEPT !.kind = "vote", !.user = u, !.target = t,
                                     !.type = type, !.running = TRUE,
                                     !.plan = <<"find">>, !.pre = Store]]
    /\ UNCHANGED <<storeVars, version, req, nreq, faults, voteVars>>

\* findById().populate('author'), the 404 and the 400 checks
RaceFind(i) ==
    /\ race[i].kind = "vote"
    /\ RaceAt(i, "find")
    /\ LET r == race[i]
           c == Content(r.target)
           rejected == VoteCheck(r.target, c, r.user)
       IN  race' = [race EXCEPT ![i] =
                       IF rejected # 0
                       THEN Respond(r, rejected)
                       ELSE [r EXCEPT !.doc = load(c), !.v = version[r.target],
                                      !.plan = VotePlan(r.type)]]
    /\ UNCHANGED <<storeVars, version, req, nreq, faults, voteVars>>

\* await content.addUpvote(userId) / addDownvote(userId): the save is sent
\* against what is stored now; a VersionError goes to the catch block
RaceApply(i) ==
    /\ RaceAt(i, "vote")
    /\ LET r == race[i]
           d == IF r.type = "upvote"
                THEN addUpvote(r.doc, r.user)
                ELSE addDownvote(r.doc, r.user)
           w == save(Content(r.target), d)
       IN  IF VersionError(d, r.v, version[r.target])
           THEN /\ race' = [race EXCEPT ![i] = [Respond(r, 500) EXCEPT !.failed = "vote"]]
                /\ UNCHANGED <<question, answer, version>>
           ELSE /\ IF r.target = "q"
                   THEN question' = w /\ UNCHANGED answer
                   ELSE answer' = [answer EXCEPT ![r.target] = w] /\ UNCHANGED question
                /\ version' = [version EXCEPT ![r.target] =
                                  IF versionInc(d) THEN @ + 1 ELSE @]
                /\ race' = [race EXCEPT ![i] =
                               [Advance(r) EXCEPT !.doc = saved(d), !.saved = TRUE]]
    /\ UNCHANGED <<reputation, answersGiven, notifications, req, nreq, faults, voteVars>>

RaceNotify(i) ==
    /\ race[i].kind = "vote"
    /\ RaceAt(i, "notify")
    /\ notifications' = notifyUpvote(notifications, race[i].doc.f.author, race[i].user)
    /\ race' = [race EXCEPT ![i] = Advance(race[i])]
    /\ UNCHANGED <<question, answer, reputation, answersGiven, version, req, nreq,
                   faults, voteVars>>

RaceReputation(i) ==
    /\ race[i].kind = "vote"
    /\ RaceAt(i, "reputation")
    /\ reputation' = updateReputation(reputation, race[i].doc.f.author,
                                      VoteDelta(race[i].target, race[i].type))
    /\ race' = [race EXCEPT ![i] = [Advance(race[i]) EXCEPT !.repDone = TRUE]]
    /\ UNCHANGED <<question, answer, answersGiven, notifications, version, req, nreq,
                   faults, voteVars>>

\* POST /:id/accept arriving while or after the first request is handled
RaceReceiveAccept(i, u, a) ==
    /\ race[i].kind = "none"
    /\ i = 2 => race[1].kind # "none"
    /\ race' = [race EXCEPT ![i] =
                   [NoRequest EXCEPT !.kind = "accept", !.user = u, !.target = a,
                                     !.running = TRUE, !.plan = <<"find">>,
                                     !.pre = Store]]
    /\ UNCHANGED <<storeVars, version, req, nreq, faults, voteVars>>

\* Answer.findById().populate('author') and the 404 check
RaceAcceptFindAnswer(i) ==
    /\ race[i].kind = "accept"
    /\ RaceAt(i, "find")
    /\ LET r == race[i]
       IN  race' = [race EXCEPT ![i] =
                       IF answer[r.target].isDeleted
                       THEN Respond(r, 404)
                       ELSE [r EXCEPT !.doc = load(answer[r.target]),
                                      !.v = version[r.target],
                                      !.plan = <<"findQuestion">>]]
    /\ UNCHANGED <<storeVars, version, req, nreq, faults, voteVars>>

\* Question.findById(answer.question) and the 403 check
RaceAcceptFindQuestion(i) ==
    /\ race[i].kind = "accept"
    /\ RaceAt(i, "findQuestion")
    /\ LET r == race[i]
           denied == AcceptCheck(question.author, r.user)
       IN  race' = [race EXCEPT ![i] =
                       IF denied # 0
                       THEN Respond(r, denied)
                       ELSE [r EXCEPT !.qdoc = load(question),
                                      !.plan = AcceptPlan(question.acceptedAnswer # NoAnswer,
                                                          r.doc.f.author # r.user)]]
    /\ UNCHANGED <<storeVars, version, req, nreq, faults, voteVars>>

\* await Answer.findByIdAndUpdate(question.acceptedAnswer, ...): the answer
\* named by the question as this request loaded it
RaceAcceptUnaccept(i) ==
    /\ race[i].kind = "accept"
    /\ RaceAt(i, "unaccept")
    /\ answer' = [answer EXCEPT ![race[i].qdoc.f.acceptedAnswer] =
                     findByIdAndUpdate(@, [isAccepted |-> FALSE, acceptedAt |-> NoDate])]
    /\ race' = [race EXCEPT ![i] = Advance(race[i])]
    /\ UNCHANGED <<question, reputation, answersGiven, notifications, version, req, nreq,
                   faults, voteVars>>

\* await answer.accept(): two scalar paths, sent without a version filter
RaceAcceptAnswer(i) ==
    /\ race[i].kind = "accept"
    /\ RaceAt(i, "accept")
    /\ LET r == race[i]
           d == accept(r.doc, Now)
       IN  /\ answer' = [answer EXCEPT ![r.target] = save(@, d)]
           /\ race' = [race EXCEPT ![i] =
                          [Advance(r) EXCEPT !.doc = saved(d), !.saved = TRUE]]
    /\ UNCHANGED <<question, reputation, answersGiven, notifications, version, req, nreq,
                   faults, voteVars>>

\* question.acceptedAnswer = answer._id; await question.save()
RaceAcceptSaveQuestion(i) ==
    /\ race[i].kind = "accept"
    /\ RaceAt(i, "saveQuestion")
    /\ LET r == race[i]
           d == set(r.qdoc, "acceptedAnswer", r.target)
       IN  /\ question' = save(question, d)
           /\ race' = [race EXCEPT ![i] = [Advance(r) EXCEPT !.qdoc = saved(d)]]
    /\ UNCHANGED <<answer, reputation, answersGiven, notifications, version, req, nreq,
                   faults, voteVars>>

RaceAcceptNotify(i) ==
    /\ race[i].kind = "accept"
    /\ RaceAt(i, "notify")
    /\ notifications' = notifyAcceptedAnswer(notifications, race[i].doc.f.author,
                                             race[i].user)
    /\ race' = [race EXCEPT ![i] = Advance(race[i])]
    /\ UNCHANGED <<question, answer, reputation, answersGiven, version, req, nreq,
                   faults, voteVars>>

RaceAcceptReputation(i) ==
    /\ race[i].kind = "accept"
    /\ RaceAt(i, "reputation")
    /\ reputation' = updateReputation(reputation, race[i].doc.f.author, AcceptDelta)
    /\ race' = [race EXCEPT ![i] = [Advance(race[i]) EXCEPT !.repDone = TRUE]]
    /\ UNCHANGED <<question, answer, answersGiven, notifications, version, req, nreq,
                   faults, voteVars>>

NextRace ==
    \/ \E i \in Slots, u \in Users, t \in {"q", "a1"}, type \in {"upvote", "downvote"} :
          RaceReceive(i, u, t, type)
    \/ \E i \in Slots, u \in Users, a \in Answers : RaceReceiveAccept(i, u, a)
    \/ \E i \in Slots : RaceAcceptFindAnswer(i)
    \/ \E i \in Slots : RaceAcceptFindQuestion(i)
    \/ \E i \in Slots : RaceAcceptUnaccept(i)
    \/ \E i \in Slots : RaceAcceptAnswer(i)
    \/ \E i \in Slots : RaceAcceptSaveQuestion(i)
    \/ \E i \in Slots : RaceAcceptNotify(i)
    \/ \E i \in Slots : RaceAcceptReputation(i)
    \/ \E i \in Slots : RaceFind(i)
    \/ \E i \in Slots : RaceApply(i)
    \/ \E i \in Slots : RaceNotify(i)
    \/ \E i \in Slots : RaceReputation(i)

SpecRace == InitRace /\ [][NextRace]_vars

\* ========================================================================
\* Properties of the request handlers (checked under Spec)
\* ========================================================================

Finished == req.kind # "none" /\ ~req.running

SelfVote == req.kind = "vote" /\ req.user = ContentAuthor(req.target)

\* C5 as stated: a vote request whose voter is the author of the content is
\* always rejected with status 400 and changes nothing in the store (here
\* for runs in which no awaited call threw and the server did not stop).
C5_Original ==
    (Finished /\ SelfVote /\ faults = 0) => (req.status = 400 /\ Store = req.pre)

\* C5 as amended: a vote request whose voter is the author never succeeds
\* and changes nothing in the store (ledger, tally, reputation,
\* notifications); it is answered 400 when the content was loaded and is
\* not a soft-deleted answer, and 404 when it is a soft-deleted answer.
C5_SelfVoteRejected ==
    SelfVote =>
        /\ Store = req.pre
        /\ Finished =>
              req.status = IF req.failed = "crash" THEN 0
                           ELSE IF req.failed # "" THEN 500
                           ELSE IF req.target # "q" /\ answer[req.target].isDeleted THEN 404
                           ELSE 400

\* C5 witness: a rejected self-vote on content that already carries a vote
C5_Witness ==
    /\ Finished
    /\ SelfVote
    /\ req.status = 400
    /\ Content(req.target).votes # 0

\* C6: every vote request that passes the checks and succeeds changes the
\* reputation of the content's author by exactly one delta of the table
\* (+5 question upvote, +10 answer upvote, -2 downvote), whatever the
\* change of the ledger was, and no other reputation.
C6_OneDeltaPerVote ==
    (Finished /\ req.kind = "vote" /\ req.status = 200) =>
        reputation = [req.pre.reputation EXCEPT ![ContentAuthor(req.target)] =
                         @ + (IF req.type = "downvote" THEN 0 - 2
                              ELSE IF req.target = "q" THEN 5 ELSE 10)]

\* C6 witness: the second successful upvote of one user on the question is a
\* toggle-off that empties the ledger, and the author's reputation is 10
C6_Witness ==
    /\ Finished
    /\ req.kind = "vote"
    /\ req.target = "q"
    /\ req.type = "upvote"
    /\ req.status = 200
    /\ req.user \in Range(req.pre.question.upvotes)
    /\ question.upvotes = <<>>
    /\ reputation[QuestionAuthor] = 10

PreContent ==
    IF req.target = "q" THEN req.pre.question
    ELSE IF req.target \in Answers THEN req.pre.answer[req.target]
    ELSE Absent

\* C7: within a vote request the content write precedes the reputation
\* write and is never rolled back: the reputation delta is only ever
\* applied after the content was saved, once saved the stored ledger stays
\* what the request wrote, and a request that stops or fails between the
\* two writes leaves the vote recorded and the reputation as it was.
C7_ContentBeforeReputation ==
    req.kind = "vote" =>
        /\ req.repDone => req.saved
        /\ req.saved => /\ Ledger(Content(req.target)) = Ledger(req.doc.f)
                        /\ Ledger(Content(req.target)) # Ledger(PreContent)
        /\ (req.saved /\ ~req.repDone) => reputation = req.pre.reputation
        /\ ~req.saved => (Content(req.target) = PreContent /\ reputation = req.pre.reputation)

\* C7 witness: a vote request that failed or stopped after its content write
\* and before its reputation write
C7_Witness ==
    /\ Finished
    /\ req.kind = "vote"
    /\ req.saved
    /\ ~req.repDone
    /\ req.failed \in {"notify", "reputation", "crash"}
    /\ req.status # 200
    /\ Ledger(Content(req.target)) # Ledger(PreContent)

\* C8: a failure of the notification step (notifyUpvote, notifyAcceptedAnswer)
\* does not make the request fail and does not prevent its other effects:
\* the request returns success and the author's reputation delta is applied.
C8_NotifyFailureHarmless ==
    (Finished /\ req.failed = "notify") =>
        /\ req.status = 200
        /\ reputation[req.doc.f.author] # req.pre.reputation[req.doc.f.author]

\* C9: after any sequence of accept-answer and delete-answer requests, each
\* run to completion, at most one answer of the question has isAccepted.
C9_AtMostOneAccepted ==
    (faults = 0 /\ ~req.running) => Cardinality({a \in Answers : answer[a].isAccepted}) <= 1

\* C10: in every persisted state, also between the writes of one accept
\* request, a non-null question.acceptedAnswer names an answer that has
\* isAccepted = true.
C10_PointerIsAccepted ==
    (faults = 0 /\ question.acceptedAnswer # NoAnswer)
        => answer[question.acceptedAnswer].isAccepted

\* the final state of C10's second failure: the accepted answer was accepted
\* again and the request succeeded
C10_AfterReaccept ==
    (/\ faults = 0
     /\ Finished
     /\ req.kind = "accept"
     /\ req.status = 200
     /\ req.pre.question.acceptedAnswer = req.target)
        => answer[req.target].isAccepted

\* C11: after a successful accept of an answer B on a question whose accepted
\* answer was a different answer A, A has isAccepted = false and
\* acceptedAt = null, B has isAccepted = true and question.acceptedAnswer = B.
C11_AcceptReplaces ==
    (/\ Finished
     /\ req.kind = "accept"
     /\ req.status = 200
     /\ req.pre.question.acceptedAnswer \notin {NoAnswer, req.target})
        => /\ ~answer[req.pre.question.acceptedAnswer].isAccepted
           /\ answer[req.pre.question.acceptedAnswer].acceptedAt = NoDate
           /\ answer[req.target].isAccepted
           /\ question.acceptedAnswer = req.target

\* C11 witness: a2 was accepted with success while a1 was the accepted answer
C11_Witness ==
    /\ Finished
    /\ req.kind = "accept"
    /\ req.status = 200
    /\ req.target = "a2"
    /\ req.pre.question.acceptedAnswer = "a1"
    /\ req.pre.answer["a1"].isAccepted
    /\ question.acceptedAnswer = "a2"

NotQuestionAuthor == req.kind = "accept" /\ req.user # QuestionAuthor

\* C12 as stated: an accept request of a user who is not the question's
\* author is answered 403 and changes nothing in the store (here for runs in
\* which no awaited call threw and the server did not stop).
C12_Original ==
    (Finished /\ NotQuestionAuthor /\ faults = 0) => (req.status = 403 /\ Store = req.pre)

\* C12 as amended: an accept request of a user who is not the question's
\* author never succeeds and changes nothing in the store (flags, dates,
\* pointer, reputation, notifications); it is answered 403 when the answer
\* and the question were loaded and the answer is not soft-deleted, and 404
\* when the answer is soft-deleted.
C12_OnlyAuthorAccepts ==
    NotQuestionAuthor =>
        /\ Store = req.pre
        /\ Finished =>
              req.status = IF req.failed = "crash" THEN 0
                           ELSE IF req.failed # "" THEN 500
                           ELSE IF answer[req.target].isDeleted THEN 404
                           ELSE 403

\* C12 witness: a moderator who is not the question's author was refused the
\* accept of an answer while another answer was the accepted one
C12_Witness ==
    /\ Finished
    /\ NotQuestionAuthor
    /\ req.status = 403
    /\ Role[req.user] = "moderator"
    /\ question.acceptedAnswer \notin {NoAnswer, req.target}

\* C13: every successful accept adds exactly 15 to the reputation of the
\* accepted answer's author, changes no other reputation, and changes the
\* upvotes, downvotes and votes of no content item.
C13_AcceptGivesFifteen ==
    (Finished /\ req.kind = "accept" /\ req.status = 200) =>
        /\ reputation = [req.pre.reputation EXCEPT ![AnswerAuthor[req.target]] = @ + 15]
        /\ Ledger(question) = Ledger(req.pre.question)
        /\ \A a \in Answers : Ledger(answer[a]) = Ledger(req.pre.answer[a])

\* C13 witness: a successful accept of an answer that carries a vote, whose
\* author's reputation was not zero before
C13_Witness ==
    /\ Finished
    /\ req.kind = "accept"
    /\ req.status = 200
    /\ answer[req.target].votes # 0
    /\ req.pre.reputation[AnswerAuthor[req.target]] # 0
    /\ reputation[AnswerAuthor[req.target]] = req.pre.reputation[AnswerAuthor[req.target]] + 15

\* C14: a successful delete of the currently accepted answer sets
\* question.acceptedAnswer to null, a successful delete of another answer
\* leaves question.acceptedAnswer as it was, and neither changes any
\* reputation (the +15 of the accept is not taken back).
C14_DeleteClearsPointer ==
    (Finished /\ req.kind = "delete" /\ req.status = 200) =>
        /\ question.acceptedAnswer =
              IF req.pre.question.acceptedAnswer = req.target
              THEN NoAnswer
              ELSE req.pre.question.acceptedAnswer
        /\ reputation = req.pre.reputation

\* C14 witness: the accepted answer was deleted by its author, who keeps the
\* 15 points of the accept
C14_Witness ==
    /\ Finished
    /\ req.kind = "delete"
    /\ req.status = 200
    /\ req.pre.question.acceptedAnswer = req.target
    /\ question.acceptedAnswer = NoAnswer
    /\ answer[req.target].isDeleted
    /\ reputation[AnswerAuthor[req.target]] = 15

\* C14 second witness case: another answer than the accepted one was deleted
C14_OtherDeleted ==
    /\ Finished
    /\ req.kind = "delete"
    /\ req.status = 200
    /\ req.pre.question.acceptedAnswer \notin {NoAnswer, req.target}
    /\ question.acceptedAnswer = req.pre.question.acceptedAnswer

NoSuchContent ==
    /\ req.kind = "vote"
    /\ \/ req.target = Gone
       \/ req.target \in Answers /\ req.pre.answer[req.target].isDeleted

\* C17: a vote request on content that does not exist or is a soft-deleted
\* answer changes nothing in the store and, when its load did not throw, is
\* answered 404; and no vote request changes the upvotes, downvotes or votes
\* of an answer that was soft-deleted when the request arrived.
C17_NoVoteOnMissingContent ==
    /\ NoSuchContent =>
          /\ Store = req.pre
          /\ (Finished /\ req.failed = "") => req.status = 404
    /\ req.kind = "vote" =>
          \A a \in Answers :
              req.pre.answer[a].isDeleted => Ledger(answer[a]) = Ledger(req.pre.answer[a])

\* C17 witness: another user than the author voted on a soft-deleted answer
\* and got 404
C17_Witness ==
    /\ Finished
    /\ req.kind = "vote"
    /\ req.target \in Answers
    /\ req.user # AnswerAuthor[req.target]
    /\ req.pre.answer[req.target].isDeleted
    /\ req.status = 404

\* C17 second witness case: a vote on an id that names no content got 404
C17_AbsentContent ==
    /\ Finished
    /\ req.kind = "vote"
    /\ req.target = Gone
    /\ req.status = 404

\* C18: a vote request on a closed question is rejected with status 400
\* and leaves the question's upvotes, downvotes and votes and every
\* reputation unchanged.
C18_ClosedVoteRejected ==
    (/\ Finished
     /\ req.kind = "vote"
     /\ req.target = "q"
     /\ req.pre.question.isClosed
     /\ faults = 0)
        => /\ req.status = 400
           /\ Ledger(question) = Ledger(req.pre.question)
           /\ reputation = req.pre.reputation

\* C19: the upvotes, downvotes and votes of an item change only through the
\* vote operations: accept, addComment, addToEditHistory (the update of an
\* answer), the soft-delete of an answer and the views of a question
\* (addView, the anonymous view) leave them as they were before the call.
C19_OnlyVotesTouchLedger ==
    (calls # <<>> /\ LastCall.op \notin {"addUpvote", "addDownvote"})
        => Ledger(item) = LastCall.before

\* C19 witness: an answer that carries an upvote and a downvote was
\* commented and then soft-deleted
C19_Witness ==
    /\ Len(calls) = 2
    /\ calls[1].op = "addComment"
    /\ calls[2].op = "softDelete"
    /\ item.upvotes # <<>>
    /\ item.downvotes # <<>>
    /\ item.isDeleted

\* C19 second witness case: a voted question was viewed by a user and
\* anonymously
C19_QuestionViewed ==
    /\ Len(calls) = 2
    /\ calls[1].op = "anonymousView"
    /\ calls[2].op = "addView"
    /\ item.votes # 0

VoteOrAccept == req.kind \in {"vote", "accept"}

\* C20: while the server runs and every awaited call returns or throws,
\* each vote request and each accept request is eventually answered, with
\* exactly one response; an awaited call that throws is answered 500, and
\* after it the request writes nothing more to the store (no retry).
C20_AnsweredOnce ==
    /\ [](VoteOrAccept =>
            /\ req.responses = IF req.running THEN 0 ELSE 1
            /\ req.failed # "" => (~req.running /\ req.status = 500))
    /\ [][(req.failed # "" /\ nreq' = nreq) => UNCHANGED storeVars]_vars
    /\ (VoteOrAccept /\ req.running) ~> (~req.running /\ req.responses = 1)

\* C20 witness: an accept request whose second write threw was answered 500
\* once, with its first write stored
C20_Witness ==
    /\ req.kind = "accept"
    /\ ~req.running
    /\ req.failed = "saveQuestion"
    /\ req.status = 500
    /\ req.responses = 1
    /\ answer[req.target].isAccepted
    /\ question.acceptedAnswer # req.target

\* ========================================================================
\* Properties of two concurrent vote requests (checked under SpecRace)
\* ========================================================================

\* both requests were handled to their response and voted on the same item
RaceOver ==
    /\ \A i \in Slots : race[i].kind = "vote" /\ ~race[i].running
    /\ race[1].target = race[2].target

\* the stored ledger says about the voter what the request's own saved
\* document says
Reflected(i) ==
    LET c == Content(race[i].target)
        d == race[i].doc.f
        u == race[i].user
    IN  /\ (u \in Range(c.upvotes)) = (u \in Range(d.upvotes))
        /\ (u \in Range(c.downvotes)) = (u \in Range(d.downvotes))

\* C15: after two vote requests of two different users on the same item,
\* interleaved in any order, every request that was answered 200 has its
\* vote in the stored ledger and the stored votes is |upvotes| - |downvotes|.
C15_NoLostVote ==
    (RaceOver /\ race[1].user # race[2].user) =>
        /\ \A i \in Slots : race[i].status = 200 => Reflected(i)
        /\ Content(race[1].target).votes =
              Len(Content(race[1].target).upvotes) - Len(Content(race[1].target).downvotes)

\* C16: after two vote requests of one user on the same item, interleaved
\* in any order, the user is not in both upvotes and downvotes of the
\* stored item.
C16_SameUserRace ==
    (RaceOver /\ race[1].user = race[2].user) =>
        Range(Content(race[1].target).upvotes)
            \cap Range(Content(race[1].target).downvotes) = {}

\* ========================================================================
\* Further properties of the model methods (checked under SpecVote)
\* ========================================================================

\* C21: one addUpvote(u) call on an item where u holds a downvote leaves,
\* in the one write of its save, u out of downvotes and in upvotes with
\* votes two higher; one addDownvote(u) call on an item where u holds an
\* upvote leaves u out of upvotes and in downvotes with votes two lower.
C21_SwitchInOneCall ==
    /\ (calls # <<>> /\ LastCall.op = "addUpvote" /\ LastCall.user \in LastCall.before.down)
          => /\ LastCall.user \notin Range(item.downvotes)
             /\ LastCall.user \in Range(item.upvotes)
             /\ item.votes = LastCall.before.votes + 2
    /\ (calls # <<>> /\ LastCall.op = "addDownvote" /\ LastCall.user \in LastCall.before.up)
          => /\ LastCall.user \notin Range(item.upvotes)
             /\ LastCall.user \in Range(item.downvotes)
             /\ item.votes = LastCall.before.votes - 2

\* C21 witness: a downvoter switched to an upvote in one call, next to
\* another user's downvote
C21_Witness ==
    /\ calls # <<>>
    /\ LastCall.op = "addUpvote"
    /\ LastCall.user \in LastCall.before.down
    /\ LastCall.user \in Range(item.upvotes)
    /\ item.downvotes # <<>>

\* C21 second witness case: an upvoter switched to a downvote in one call
C21_SwitchDown ==
    /\ calls # <<>>
    /\ LastCall.op = "addDownvote"
    /\ LastCall.user \in LastCall.before.up
    /\ LastCall.user \in Range(item.downvotes)

\* C25: addUpvote(u) and addDownvote(u) change only u's entries: every
\* other user is in upvotes (in downvotes) after the call exactly when
\* they were before it, and votes moves by at most 2.
C25_OnlyOwnEntries ==
    (calls # <<>> /\ LastCall.op \in {"addUpvote", "addDownvote"}) =>
        /\ \A w \in Users \ {LastCall.user} :
              /\ (w \in Range(item.upvotes)) = (w \in LastCall.before.up)
              /\ (w \in Range(item.downvotes)) = (w \in LastCall.before.down)
        /\ item.votes - LastCall.before.votes \in -2..2

\* C25 witness: a user switched from upvote to downvote while one other
\* user holds an upvote and another a downvote
C25_Witness ==
    /\ calls # <<>>
    /\ LastCall.op = "addDownvote"
    /\ LastCall.user \in LastCall.before.up
    /\ item.votes = LastCall.before.votes - 2
    /\ Range(item.upvotes) # {}
    /\ Range(item.downvotes) # {LastCall.user}

\* C28: the views counter of a question never decreases under anonymous and
\* authenticated views; an anonymous view adds exactly 1, and the second of
\* two views in a row by one user adds nothing.
C28_ViewsNeverDecrease ==
    (calls # <<>> /\ itemKind = "question") =>
        /\ item.views >= LastCall.views
        /\ LastCall.op = "anonymousView" => item.views = LastCall.views + 1
        /\ TwoCalls("addView", "addView") => item.views = LastCall.views

\* ========================================================================
\* Further properties of the request handlers (checked under Spec)
\* ========================================================================

\* C23: when the content write of a vote request (the save inside addUpvote
\* / addDownvote) throws, the request is answered with an error, and the
\* store is what it was before the request: same upvotes, downvotes and
\* votes, no reputation delta, no notification.
C23_FailedVoteWritesNothing ==
    (req.kind = "vote" /\ req.failed = "vote") =>
        /\ req.status = 500
        /\ Ledger(Content(req.target)) = Ledger(PreContent)
        /\ reputation = req.pre.reputation
        /\ notifications = req.pre.notifications
        /\ Store = req.pre

\* C23 witness: the save of an upvote on content that already carries a
\* vote threw
C23_Witness ==
    /\ Finished
    /\ req.kind = "vote"
    /\ req.type = "upvote"
    /\ req.failed = "vote"
    /\ req.status = 500
    /\ Content(req.target).votes # 0

\* C26: a successful accept of the answer that already is the question's
\* accepted answer leaves that answer with isAccepted = true and the
\* question's acceptedAnswer naming it.
C26_ReacceptKeepsAccepted ==
    (/\ Finished
     /\ req.kind = "accept"
     /\ req.status = 200
     /\ req.pre.question.acceptedAnswer = req.target
     /\ req.pre.answer[req.target].isAccepted
     /\ faults = 0)
        => /\ answer[req.target].isAccepted
           /\ question.acceptedAnswer = req.target

\* ========================================================================
\* Further properties of two concurrent requests (checked under SpecRace)
\* ========================================================================

NoDuplicates(s) == Cardinality(Range(s)) = Len(s)

\* C24: in every stored state reached by vote requests, handled one after
\* the other or interleaved, each user occurs at most once in upvotes and at
\* most once in downvotes of every content item.
C24_LedgerIsASet ==
    \A t \in {"q"} \cup Answers :
        NoDuplicates(Content(t).upvotes) /\ NoDuplicates(Content(t).downvotes)

\* both requests are accepts by the question's author, of two different
\* answers, and both were handled to their response
TwoAcceptsOver ==
    /\ \A i \in Slots :
          race[i].kind = "accept" /\ ~race[i].running /\ race[i].user = QuestionAuthor
    /\ race[1].target # race[2].target

\* C22: after two accept requests of the question's author for two
\* different answers, interleaved in any order, at most one of the two
\* answers has isAccepted = true and question.acceptedAnswer names an
\* answer that has it.
C22_AcceptRace ==
    TwoAcceptsOver =>
        /\ Cardinality({a \in {race[1].target, race[2].target} : answer[a].isAccepted}) <= 1
        /\ question.acceptedAnswer # NoAnswer => answer[question.acceptedAnswer].isAccepted

\* ========================================================================
\* Properties of creating and deleting answers (checked under SpecThread)
\* ========================================================================

LiveAnswers == {a \in Answers : answer[a] # Absent /\ ~answer[a].isDeleted}

\* C27: after any sequence of completed create-answer and delete-answer
\* requests, question.isAnswered is true exactly when the question has an
\* answer that is not soft-deleted, and question.answers lists exactly the
\* ids of the answers that are not soft-deleted, each once.
C27_AnswersListed ==
    ~req.running =>
        /\ question.isAnswered = (LiveAnswers # {})
        /\ Range(question.answers) = LiveAnswers
        /\ Len(question.answers) = Cardinality(LiveAnswers)

\* C27 witness: the only answer was deleted and then another one created
C27_Witness ==
    /\ Finished
    /\ req.kind = "create"
    /\ req.status = 201
    /\ \E a \in Answers : answer[a] # Absent /\ answer[a].isDeleted
    /\ question.answers = <<req.target>>
    /\ question.isAnswered

\* C27 second witness case: the last answer that was left was deleted
C27_NoneLeft ==
    /\ Finished
    /\ req.kind = "delete"
    /\ req.status = 200
    /\ LiveAnswers = {}
    /\ ~question.isAnswered

\* ========================================================================
\* Properties of the notification helpers (checked under SpecNotify)
\* ========================================================================

OddoOwner == "u1"

\* answerSchema: question, user, isAccepted (default false)
NewOddoAnswer(user) == [question |-> "q", user |-> user, isAccepted |-> FALSE]

\* the answer schema has no pre('save') hook: save() sends the modified
\* paths as they are
saveOddo(stored, doc) ==
    [p \in DOMAIN stored |-> IF p \in doc.mod THEN doc.f[p] ELSE stored[p]]

\* Answer.updateMany({ question, isAccepted: true }, { $set: { isAccepted: false } })
updateManyUnaccept(answers, q) ==
    [a \in DOMAIN answers |->
        IF answers[a].question = q /\ answers[a].isAccepted
        THEN [answers[a] EXCEPT !.isAccepted = FALSE]
        ELSE answers[a]]

InitOddo ==
    /\ InitItem
    /\ InitRaceIdle
    /\ question = [user |-> OddoOwner]
    /\ answer = [a \in Answers |-> NewOddoAnswer(AnswerAuthor[a])]
    /\ reputation = [u \in Users |-> 0]
    /\ answersGiven = [u \in Users |-> 0]
    /\ notifications = <<>>
    /\ req = NoRequest
    /\ nreq = 0
    /\ faults = 0

OddoReceive(u, a) ==
    /\ Idle
    /\ nreq < MaxRequests
    /\ nreq' = nreq + 1
    /\ req' = [NoRequest EXCEPT !.kind = "acceptAnswer", !.user = u, !.target = a,
                                !.running = TRUE, !.plan = <<"findAnswer">>,
                                !.pre = Store]
    /\ UNCHANGED <<storeVars, faults, voteVars, raceVars>>

\* const answer = await Answer.findById(answerId); 404 when there is none
OddoFindAnswer ==
    /\ At("acceptAnswer", "findAnswer")
    /\ req' = IF req.target \notin Answers
              THEN Respond(req, 404)
              ELSE [req EXCEPT !.doc = load(answer[req.target]),
                               !.plan = <<"findQuestion">>]
    /\ UNCHANGED <<storeVars, nreq, faults, voteVars, raceVars>>

\* const question = await Question.findById(answer.question); the 404 and
\* the owner check
OddoFindQuestion ==
    /\ At("acceptAnswer", "findQuestion")
    /\ req' = IF req.doc.f.question # "q"
              THEN Respond(req, 404)
              ELSE IF question.user # req.user
              THEN Respond(req, 403)
              ELSE [req EXCEPT !.qdoc = load(question),
                               !.plan = <<"updateMany", "save">>]
    /\ UNCHANGED <<storeVars, nreq, faults, voteVars, raceVars>>

\* await Answer.updateMany(...): every accepted answer of the question is
\* cleared in the store; the loaded answer document is not touched
OddoUpdateMany ==
    /\ At("acceptAnswer", "updateMany")
    /\ answer' = updateManyUnaccept(answer, req.doc.f.question)
    /\ req' = Advance(req)
    /\ UNCHANGED <<question, reputation, answersGiven, notifications, nreq, faults,
                   voteVars, raceVars>>

\* answer.isAccepted = true; await answer.save(); res.json(...)
OddoSave ==
    /\ At("acceptAnswer", "save")
    /\ LET d == set(req.doc, "isAccepted", TRUE)
       IN  /\ answer' = [answer EXCEPT ![req.target] = saveOddo(@, d)]
           /\ req' = [Advance(req) EXCEPT !.doc = [d EXCEPT !.mod = {}], !.saved = TRUE]
    /\ calls' = <<[op |-> "acceptAnswer", user |-> req.user, target |-> req.target]>>
    /\ UNCHANGED <<item, itemKind, question, reputation, answersGiven, notifications,
                   nreq, faults, raceVars>>

\* an awaited call rejects: catch (err) responds 500
OddoFail ==
    /\ req.running
    /\ req.kind = "acceptAnswer"
    /\ req.plan # <<>>
    /\ faults < MaxFaults
    /\ req' = [Respond(req, 500) EXCEPT !.failed = Head(req.plan)]
    /\ faults' = faults + 1
    /\ UNCHANGED <<storeVars, nreq, voteVars, raceVars>>

NextOddo ==
    \/ \E u \in Users, a \in Answers \cup {Gone} : OddoReceive(u, a)
    \/ OddoFindAnswer
    \/ OddoFindQuestion
    \/ OddoUpdateMany
    \/ OddoSave
    \/ OddoFail

SpecOddo == InitOddo /\ [][NextOddo]_vars

\* C30: in the oddo-hacks backend an acceptAnswer request of a user other
\* than the question's owner is answered 403 and changes no answer, only the
\* owner's request is answered with success, and once every awaited call
\* of every request has resolved and the last request is answered, the
\* answer accepted by the most recent successful request is the one answer
\* of the question with isAccepted = true
C30_OwnerAcceptsLastOnly ==
    /\ (Finished /\ req.kind = "acceptAnswer" /\ req.target \in Answers
            /\ req.user # question.user /\ req.failed = "")
          => (req.status = 403 /\ answer = req.pre.answer)
    /\ (Finished /\ req.kind = "acceptAnswer" /\ req.status = 200)
          => req.user = question.user
    /\ (Idle /\ faults = 0 /\ calls # <<>>)
          => \A a \in Answers : answer[a].isAccepted <=> (a = calls[1].target)

====
